---- MODULE Spec2Model ----
(***************************************************************************)
(* A model of monitor_jobs.py: the title rules, the five site scrapers,    *)
(* the seen file, and the run_once / initialize_seen orchestration.        *)
(*                                                                         *)
(* Text is modelled by TLA+ strings; the Python string operations used by  *)
(* the program (in, startswith, lower, strip) are computed character by    *)
(* character.  The seen file is a sequence of lines, because every write   *)
(* of the program ends its entry with a line break; a url never holds a    *)
(* line break.                                                             *)
(***************************************************************************)
EXTENDS Integers, Sequences, FiniteSets, TLC

VARIABLES
    title,      \* SpecTitle: the title handed to a title rule
    verdict,    \* SpecTitle: [rule, value], the rule applied last and its answer
    page,       \* SpecScrape: the anchors of the rendered document, in order
    gscript,    \* SpecScrape: what the browser does on the Google search page
    adapter,    \* SpecScrape: the scraper applied last
    results,    \* SpecScrape: what that scraper returned
    google,     \* SpecScrape: the state of scrape_google's loop
    world,      \* per site: is it reachable, and what it shows
    changed,    \* some site changed since the last operation ended
    changes,    \* how many times a site has changed
    file,       \* seen_jobs.txt: [exists, lines]
    creds,      \* EMAIL_USER and EMAIL_PASSWORD are both set
    pc,         \* where the running operation is
    op,         \* the operation: "run_once" or "initialize_seen"
    seen,       \* run_once: the set load_seen_jobs returned
    all_items,  \* the list fetch_all has built so far
    new_items,  \* run_once: the postings not in seen
    mail,       \* what became of this operation's email
    driver,     \* the browser session: "none", "open", "quit"
    exc,        \* an exception is propagating out of the operation
    file0,      \* the seen file when the operation started
    prev,       \* how the previous operation ended: [op, result, mail, new]
    mode,       \* SpecMain: the command line: "initialize", "run_once", "loop"
    main_pc,    \* SpecMain: where main is
    appended,   \* SpecStore: the list handed to save_new_jobs last
    loaded,     \* SpecStore: what load_seen_jobs returned before that call
    runs,       \* SpecPair: two executions of run_once, each [pc, seen,
                \* new_items, mail, alone, saved]
    before      \* SpecArm: [seen, fetched], what load_seen_jobs returned before
                \* initialize_seen and the urls initialize_seen fetched

titleVars == <<title, verdict>>
scrapeVars == <<page, gscript, adapter, results, google>>
runVars == <<world, changed, changes, file, creds, pc, op, seen, all_items, new_items,
             mail, driver, exc, file0, prev>>
mainVars == <<mode, main_pc>>
storeVars == <<appended, loaded>>
pairVars == <<runs, before>>
vars == <<title, verdict, page, gscript, adapter, results, google, world, changed,
          changes, file, creds, pc, op, seen, all_items, new_items, mail, driver, exc,
          file0, prev, mode, main_pc, appended, loaded, runs, before>>

----------------------------------------------------------------------------
(* Python string operations *)

\* the i-th character of s, as a string of length one
Char(s, i) == SubSeq(s, i, i)

\* sub in s
Contains(s, sub) ==
    \E i \in 0..(Len(s) - Len(sub)) : SubSeq(s, i + 1, i + Len(sub)) = sub

\* s.startswith(prefix)
StartsWith(s, prefix) ==
    /\ Len(prefix) <= Len(s)
    /\ SubSeq(s, 1, Len(prefix)) = prefix

Upper == <<"A", "B", "C", "D", "E", "F", "G", "H", "I", "J", "K", "L", "M",
           "N", "O", "P", "Q", "R", "S", "T", "U", "V", "W", "X", "Y", "Z">>
LowerOf == <<"a", "b", "c", "d", "e", "f", "g", "h", "i", "j", "k", "l", "m",
             "n", "o", "p", "q", "r", "s", "t", "u", "v", "w", "x", "y", "z">>

LowerChar(c) ==
    IF \E k \in DOMAIN Upper : Upper[k] = c
    THEN LowerOf[CHOOSE k \in DOMAIN Upper : Upper[k] = c]
    ELSE c

\* s.lower(): every character mapped, the string split in halves
RECURSIVE Lower(_)
Lower(s) ==
    IF Len(s) = 0 THEN ""
    ELSE IF Len(s) = 1 THEN LowerChar(s)
    ELSE LET h == Len(s) \div 2 IN
         Lower(SubSeq(s, 1, h)) \o Lower(SubSeq(s, h + 1, Len(s)))

IsSpace(c) == c \in {" ", "\t"}

RECURSIVE LStrip(_)
LStrip(s) ==
    IF Len(s) > 0 /\ IsSpace(Char(s, 1)) THEN LStrip(SubSeq(s, 2, Len(s))) ELSE s

RECURSIVE RStrip(_)
RStrip(s) ==
    IF Len(s) > 0 /\ IsSpace(Char(s, Len(s)))
    THEN RStrip(SubSeq(s, 1, Len(s) - 1)) ELSE s

\* s.strip()
Strip(s) == RStrip(LStrip(s))

\* any(k in t for k in tokens)
AnyIn(tokens, t) == \E k \in DOMAIN tokens : Contains(t, tokens[k])

\* any(t.startswith(p) for p in prefixes)
AnyPrefix(prefixes, t) == \E k \in DOMAIN prefixes : StartsWith(t, prefixes[k])

----------------------------------------------------------------------------
(* Title rules *)

EXCLUDED_KEYWORDS ==
    <<"staff", "manager", "site reliability", "sre", "mobile", "ios">>

is_excluded(t0) == AnyIn(EXCLUDED_KEYWORDS, Lower(t0))

ms_exclude_tokens ==
    <<"senior", "principal", "director", "architect", "manager", "lead",
      "intern", "internship">>

ms_allowed_prefixes ==
    <<"software engineer ii", "software engineer 2", "software engineer">>

\* the allowed prefixes tried before the exclude tokens
is_ms_relevant_title_PrefixFirst(t0) ==
    LET t == Lower(t0) IN
    IF AnyPrefix(ms_allowed_prefixes, t) THEN TRUE
    ELSE FALSE

is_ms_relevant_title(t0) ==
    LET t == Lower(t0) IN
    IF AnyIn(ms_exclude_tokens, t) THEN FALSE
    ELSE AnyPrefix(ms_allowed_prefixes, t)

google_exclude_tokens ==
    <<"senior", "principal", "director", "architect", "manager", "lead",
      "intern", "internship", "staff">>

google_allowed_prefixes ==
    <<"software engineer iii", "software engineer ii", "software engineer 3",
      "software engineer 2", "software engineer">>

is_google_relevant_title(t0) ==
    LET t == Lower(t0) IN
    IF AnyIn(google_exclude_tokens, t) THEN FALSE
    ELSE AnyPrefix(google_allowed_prefixes, t)

meta_exclude_tokens ==
    <<"senior", "staff", "principal", "director", "architect", "manager",
      "lead", "intern", "internship">>

is_meta_relevant_title(t0) ==
    LET t == Lower(t0) IN
    IF ~Contains(t, "software engineer") THEN FALSE
    ELSE IF AnyIn(meta_exclude_tokens, t) THEN FALSE
    ELSE TRUE

----------------------------------------------------------------------------
(* Site scrapers.  A document is the sequence of its <a> elements in        *)
(* document order: [has_href, href, ph, text], where ph says that the       *)
(* data-ph-id attribute is present and text is the element's raw text.      *)
(* A posting is the tuple <<source, url, title>>.                           *)

\* urljoin(base, href) for a base without a path and an href that is a path,
\* a network-path reference ("//host/...") or a relative path
urljoin(base, href) ==
    IF href = "" THEN base
    ELSE IF StartsWith(href, "//") THEN "https:" \o href
    ELSE IF StartsWith(href, "/") THEN base \o href
    ELSE base \o "/" \o href

absolute(base, href) ==
    IF href = "" THEN ""
    ELSE IF StartsWith(href, "http://") \/ StartsWith(href, "https://") THEN href
    ELSE urljoin(base, href)

\* a.get("href", "") and (a.get("href") or "")
GetHref(a) == IF a.has_href THEN a.href ELSE ""

\* a.get_text() without strip=True
GetText_Raw(a) == a.text

\* a.get_text(strip=True)
GetText(a) == Strip(a.text)

\* soup.select('a[href^="/roles/"]')
SelectGs(doc) ==
    SelectSeq(doc, LAMBDA a : a.has_href /\ StartsWith(a.href, "/roles/"))

RECURSIVE gs_loop(_, _, _)
gs_loop(anchors, res, seen_urls) ==
    IF anchors = <<>> THEN res
    ELSE LET a == Head(anchors)
             href == Strip(GetHref(a))
             t == GetText(a)
             url == absolute("https://higher.gs.com", href)
         IN  IF t = "" \/ is_excluded(t) THEN gs_loop(Tail(anchors), res, seen_urls)
             ELSE IF url \in seen_urls THEN gs_loop(Tail(anchors), res, seen_urls)
             ELSE gs_loop(Tail(anchors),
                          Append(res, <<"Goldman Sachs", url, t>>),
                          seen_urls \cup {url})

scrape_gs(doc) == gs_loop(SelectGs(doc), <<>>, {})

\* soup.select('a[href*="/careers/job"], a[href*="/jobs/"], a[data-ph-id]')
SelectPaypal(doc) ==
    SelectSeq(doc, LAMBDA a :
        \/ a.has_href /\ Contains(a.href, "/careers/job")
        \/ a.has_href /\ Contains(a.href, "/jobs/")
        \/ a.ph)

RECURSIVE paypal_loop(_, _, _)
paypal_loop(anchors, res, seen_urls) ==
    IF anchors = <<>> THEN res
    ELSE LET a == Head(anchors)
             href == Strip(GetHref(a))
             t == GetText(a)
             looks_like_job == \/ Contains(href, "/careers/job")
                               \/ Contains(href, "/job/")
                               \/ Contains(href, "/jobs/")
             url == absolute("https://paypal.eightfold.ai", href)
         IN  IF href = "" \/ t = "" THEN paypal_loop(Tail(anchors), res, seen_urls)
             ELSE IF ~looks_like_job THEN paypal_loop(Tail(anchors), res, seen_urls)
             ELSE IF is_excluded(t) THEN paypal_loop(Tail(anchors), res, seen_urls)
             ELSE IF url \in seen_urls THEN paypal_loop(Tail(anchors), res, seen_urls)
             ELSE paypal_loop(Tail(anchors),
                              Append(res, <<"PayPal", url, t>>),
                              seen_urls \cup {url})

scrape_paypal(doc) == paypal_loop(SelectPaypal(doc), <<>>, {})

\* soup.select('a[href*="/careers/job/"]')
SelectMs(doc) ==
    SelectSeq(doc, LAMBDA a : a.has_href /\ Contains(a.href, "/careers/job/"))

RECURSIVE ms_loop(_, _, _)
ms_loop(anchors, res, seen_urls) ==
    IF anchors = <<>> THEN res
    ELSE LET a == Head(anchors)
             href == Strip(GetHref(a))
             t == GetText(a)
             url == absolute("https://apply.careers.microsoft.com", href)
         IN  IF href = "" \/ t = "" THEN ms_loop(Tail(anchors), res, seen_urls)
             ELSE IF is_excluded(t) \/ ~is_ms_relevant_title(t)
                  THEN ms_loop(Tail(anchors), res, seen_urls)
             ELSE IF url \in seen_urls THEN ms_loop(Tail(anchors), res, seen_urls)
             ELSE ms_loop(Tail(anchors),
                          Append(res, <<"Microsoft", url, t>>),
                          seen_urls \cup {url})

scrape_ms(doc) == ms_loop(SelectMs(doc), <<>>, {})

\* soup.select('a[href*="/jobs/"]')
SelectMeta(doc) ==
    SelectSeq(doc, LAMBDA a : a.has_href /\ Contains(a.href, "/jobs/"))

RECURSIVE meta_loop(_, _, _)
meta_loop(anchors, res, seen_urls) ==
    IF anchors = <<>> THEN res
    ELSE LET a == Head(anchors)
             href == Strip(GetHref(a))
             t == GetText(a)
             url == absolute("https://www.metacareers.com", href)
         IN  IF href = "" \/ t = "" THEN meta_loop(Tail(anchors), res, seen_urls)
             ELSE IF is_excluded(t) \/ ~is_meta_relevant_title(t)
                  THEN meta_loop(Tail(anchors), res, seen_urls)
             ELSE IF url \in seen_urls THEN meta_loop(Tail(anchors), res, seen_urls)
             ELSE meta_loop(Tail(anchors),
                            Append(res, <<"Meta", url, t>>),
                            seen_urls \cup {url})

scrape_meta(doc) == meta_loop(SelectMeta(doc), <<>>, {})

(* scrape_google drives the browser.  What the browser does is a script:    *)
(* marker says whether a "Learn more" element shows up within the first     *)
(* wait, and steps[(idx % Len(steps)) + 1] says what happens in iteration   *)
(* idx of the click-through loop:                                           *)
(*   find         "ok" | "raise"        find_elements                       *)
(*   nbuttons     len(buttons)                                              *)
(*   heading      text of the nearest heading, "" when there is none        *)
(*   current_url  "ok" | "raise"        reading old_url                     *)
(*   click        "ok" | "raise"        the click script                    *)
(*   nav          "changed" | "timeout" the wait for url_changes            *)
(*   url          the address after the click                               *)
(*   detail       "found" | "timeout"   the wait for the detail heading     *)
(*   detail_text  text of the detail page's heading                         *)
(*   back         "ok" | "fail"         driver.back and the wait after it   *)

max_jobs == 30

GoogleFallbackTitle == "Software Engineer (Google job)"

NoButtons ==
    [find |-> "ok", nbuttons |-> 0, heading |-> "", current_url |-> "ok",
     click |-> "ok", nav |-> "changed", url |-> "", detail |-> "timeout",
     detail_text |-> "", back |-> "ok"]

StepAt(steps, idx) ==
    IF steps = <<>> THEN NoButtons ELSE steps[(idx % Len(steps)) + 1]

\* the test before results.append without the level and exclude rules
google_keep_Lax(t) == Contains(Lower(t), "software engineer")

\* the test before results.append
google_keep(t) ==
    /\ Contains(Lower(t), "software engineer")
    /\ is_google_relevant_title(t)
    /\ ~is_excluded(t)

\* the state of scrape_google: [idx, results, seen_urls, clicks, done]
google_start(script) ==
    [idx |-> 0, results |-> <<>>, seen_urls |-> {}, clicks |-> 0,
     done |-> ~script.marker]

\* the loop body without the bound of range(max_jobs), or with a break where
\* the wait for the new address times out
google_iter_Variant(g, st, bounded, timeout_breaks) ==
    LET listed == Strip(st.heading)
        t == IF listed # "" THEN listed
             ELSE IF st.detail = "found" THEN Strip(st.detail_text)
             ELSE GoogleFallbackTitle
        break == [g EXCEPT !.done = TRUE]
        continue == [g EXCEPT !.idx = g.idx + 1]
        clicked == [continue EXCEPT !.clicks = g.clicks + 1]
        recorded == [clicked EXCEPT
                        !.seen_urls = g.seen_urls \cup {st.url},
                        !.results = IF google_keep(t)
                                    THEN Append(g.results, <<"Google", st.url, t>>)
                                    ELSE g.results]
    IN
    CASE bounded /\ g.idx >= max_jobs -> break
      [] OTHER ->
    CASE st.find = "raise" -> break
      [] st.find # "raise" /\ g.idx >= st.nbuttons -> break
      [] OTHER ->
    CASE listed # "" /\ ~Contains(Lower(listed), "software engineer") -> continue
      [] OTHER ->
    CASE listed # "" /\ (is_excluded(listed) \/ ~is_google_relevant_title(listed))
           -> continue
      [] OTHER ->
    CASE st.current_url = "raise" -> break
      [] OTHER ->
    CASE st.click = "raise" -> continue
      [] OTHER ->
    CASE st.nav = "timeout" -> IF timeout_breaks THEN break ELSE clicked
      [] OTHER ->
    CASE st.url \in g.seen_urls -> clicked
      [] OTHER ->
    CASE st.back = "fail" -> [recorded EXCEPT !.idx = g.idx, !.done = TRUE]
      [] OTHER -> recorded

google_iter_BreakOnTimeout(g, st) == google_iter_Variant(g, st, TRUE, TRUE)

google_iter_Unbounded(g, st) == google_iter_Variant(g, st, FALSE, FALSE)

\* one iteration of the for loop, st being what the browser does in it
google_iter(g, st) ==
    LET listed == Strip(st.heading)
        t == IF listed # "" THEN listed
             ELSE IF st.detail = "found" THEN Strip(st.detail_text)
             ELSE GoogleFallbackTitle
        break == [g EXCEPT !.done = TRUE]
        continue == [g EXCEPT !.idx = g.idx + 1]
        clicked == [continue EXCEPT !.clicks = g.clicks + 1]
        recorded == [clicked EXCEPT
                        !.seen_urls = g.seen_urls \cup {st.url},
                        !.results = IF google_keep(t)
                                    THEN Append(g.results, <<"Google", st.url, t>>)
                                    ELSE g.results]
    IN
    CASE g.idx >= max_jobs -> break
      [] OTHER ->
    CASE st.find = "raise" -> break
      [] st.find # "raise" /\ g.idx >= st.nbuttons -> break
      [] OTHER ->
    CASE listed # "" /\ ~Contains(Lower(listed), "software engineer") -> continue
      [] OTHER ->
    CASE listed # "" /\ (is_excluded(listed) \/ ~is_google_relevant_title(listed))
           -> continue
      [] OTHER ->
    CASE st.current_url = "raise" -> break
      [] OTHER ->
    CASE st.click = "raise" -> continue
      [] OTHER ->
    CASE st.nav = "timeout" -> clicked
      [] OTHER ->
    CASE st.url \in g.seen_urls -> clicked
      [] OTHER ->
    CASE st.back = "fail" -> [recorded EXCEPT !.idx = g.idx, !.done = TRUE]
      [] OTHER -> recorded

RECURSIVE google_loop(_, _)
google_loop(g, steps) ==
    IF g.done THEN g ELSE google_loop(google_iter(g, StepAt(steps, g.idx)), steps)

\* the whole of scrape_google: its result list and the clicks it made
google_run(script) == google_loop(google_start(script), script.steps)

scrape_google(script) == google_run(script).results

----------------------------------------------------------------------------
(* The seen file *)

\* the file is never read
load_seen_jobs_Unread(f) == {}

\* the lines of the file that are not blank, stripped
load_seen_jobs(f) ==
    IF ~f.exists THEN {}
    ELSE {Strip(f.lines[i]) : i \in {j \in DOMAIN f.lines : Strip(f.lines[j]) # ""}}

\* the file opened with "w" instead of "a"
append_lines_Truncating(f, job_ids, k) ==
    [exists |-> TRUE, lines |-> SubSeq(job_ids, 1, k)]

RECURSIVE Joined(_)
Joined(q) == IF q = <<>> THEN "" ELSE Head(q) \o Joined(Tail(q))

\* f.write(jid) without the line break: the k entries end up on one line
append_lines_NoLineBreak(f, job_ids, k) ==
    [exists |-> TRUE,
     lines |-> (IF f.exists THEN f.lines ELSE <<>>)
               \o (IF k = 0 THEN <<>> ELSE <<Joined(SubSeq(job_ids, 1, k))>>)]

\* open(SEEN_FILE, "a") and the first k writes of the loop
append_lines(f, job_ids, k) ==
    [exists |-> TRUE,
     lines |-> (IF f.exists THEN f.lines ELSE <<>>) \o SubSeq(job_ids, 1, k)]

\* the loop stops one entry early
save_new_jobs_DropLast(f, job_ids) ==
    IF job_ids = <<>> THEN f ELSE append_lines(f, job_ids, Len(job_ids) - 1)

save_new_jobs(f, job_ids) ==
    IF job_ids = <<>> THEN f ELSE append_lines(f, job_ids, Len(job_ids))

\* open(SEEN_FILE, "w") and the first k writes of the loop
write_lines(init_list, k) ==
    [exists |-> TRUE, lines |-> SubSeq(init_list, 1, k)]

----------------------------------------------------------------------------
(* What the sites show.  A site is [up, doc, script]: when it is not up its *)
(* scraper raises; doc is the document of an anchor site and script the     *)
(* browser's behaviour on the Google search page.                           *)

A(href, text) == [has_href |-> TRUE, href |-> href, ph |-> FALSE, text |-> text]

NoScript == [marker |-> FALSE, steps |-> <<>>]

Down == [up |-> FALSE, doc |-> <<>>, script |-> NoScript]

Showing(doc) == [up |-> TRUE, doc |-> doc, script |-> NoScript]

GoodStep ==
    [find |-> "ok", nbuttons |-> 1, heading |-> "", current_url |-> "ok",
     click |-> "ok", nav |-> "changed",
     url |-> "https://www.google.com/about/careers/applications/jobs/results/9-swe",
     detail |-> "found", detail_text |-> "Software Engineer III", back |-> "ok"]

SiteStates(source) ==
    CASE source = "Goldman Sachs" ->
           {Down,
            Showing(<<A("/roles/1", " Analyst "), A("/roles/1", "Analyst"),
                      A("/roles/2", "Staff Accountant")>>)}
      [] source = "PayPal" ->
           {Down,
            Showing(<<A("https://www.metacareers.com/jobs/3", "Software Engineer, Payments"),
                      [has_href |-> TRUE, href |-> "/about", ph |-> TRUE, text |-> "About"]>>)}
      [] source = "Microsoft" ->
           {Down,
            Showing(<<A("/careers/job/7", "Principal Software Engineer"),
                      A("/careers/job/8 ", "Software Engineer II")>>)}
      [] source = "Google" ->
           {Down,
            [up |-> TRUE, doc |-> <<>>,
             script |-> [marker |-> TRUE, steps |-> <<GoodStep>>]]}
      [] source = "Meta" ->
           {Down,
            Showing(<<A("/jobs/3", "Software Engineer, Product"),
                      A("/jobs/4", "Senior Software Engineer")>>)}

\* the seen file before the first operation: absent, or left by earlier runs
\* and by hand (padded and blank lines, a posting that is gone)
InitFiles ==
    {[exists |-> FALSE, lines |-> <<>>],
     [exists |-> TRUE, lines |-> <<"https://www.metacareers.com/jobs/3">>],
     [exists |-> TRUE,
      lines |-> <<" https://higher.gs.com/roles/1 ", "", "https://higher.gs.com/roles/0">>]}

----------------------------------------------------------------------------
(* Orchestration *)

Sources == <<"Goldman Sachs", "PayPal", "Microsoft", "Google", "Meta">>

\* what one scraper returns for what its site shows
scrape(source, site) ==
    CASE source = "Goldman Sachs" -> scrape_gs(site.doc)
      [] source = "PayPal"        -> scrape_paypal(site.doc)
      [] source = "Microsoft"     -> scrape_ms(site.doc)
      [] source = "Google"        -> scrape_google(site.script)
      [] source = "Meta"          -> scrape_meta(site.doc)

\* one try/except around all scrapers: a raise loses what was collected
fetch_step_Abort(items, source, site) ==
    IF site.up THEN items \o scrape(source, site) ELSE <<>>

\* one try/except block of fetch_all: a scraper that raises adds nothing
fetch_step(items, source, site) ==
    IF site.up THEN items \o scrape(source, site) ELSE items

\* the filter on seen left out
detect_All(items, seen_set) == items

\* [(src, url, title) for (src, url, title) in all_items if url not in seen]
detect(items, seen_set) == SelectSeq(items, LAMBDA it : it[2] \notin seen_set)

\* [url for (_, url, _) in items]
urls_of(items) == [i \in DOMAIN items |-> items[i][2]]

\* the loop of initialize_seen that drops repeated urls
RECURSIVE init_loop(_, _, _)
init_loop(unique_urls, seen_set, init_list) ==
    IF unique_urls = <<>> THEN init_list
    ELSE LET u == Head(unique_urls) IN
         IF u \notin seen_set
         THEN init_loop(Tail(unique_urls), seen_set \cup {u}, Append(init_list, u))
         ELSE init_loop(Tail(unique_urls), seen_set, init_list)

\* the titles recorded instead of the urls
init_list_of_Titles(items) ==
    init_loop([i \in DOMAIN items |-> items[i][3]], {}, <<>>)

init_list_of(items) == init_loop(urls_of(items), {}, <<>>)

\* the operation is over: its locals are gone and prev records how it ended,
\* with the postings of an email that was delivered before the operation raised
End(o, result) ==
    /\ pc' = "idle"
    /\ prev' = [op |-> o, result |-> result, mail |-> mail,
                new |-> IF result = "raised" /\ mail = "delivered"
                        THEN new_items ELSE <<>>]
    /\ changed' = FALSE
    /\ seen' = {}
    /\ all_items' = <<>>
    /\ new_items' = <<>>
    /\ mail' = "none"
    /\ exc' = (result = "raised")

\* run_once is called: load_seen_jobs, which reads the file or raises
RunLoad ==
    /\ pc = "idle"
    /\ op' = "run_once"
    /\ file0' = file
    /\ \/ /\ seen' = load_seen_jobs(file)
          /\ pc' = "start"
          /\ exc' = FALSE
          /\ driver' = "none"
          /\ UNCHANGED <<prev, changed, all_items, new_items, mail>>
       \/ /\ file.exists
          /\ driver' = "none"
          /\ End("run_once", "raised")
    /\ UNCHANGED <<titleVars, scrapeVars, mainVars, storeVars, pairVars, world, changes, file, creds>>

\* initialize_seen is called
InitCall ==
    /\ pc = "idle"
    /\ op' = "initialize_seen"
    /\ file0' = file
    /\ driver' = "none"
    /\ exc' = FALSE
    /\ pc' = "start"
    /\ UNCHANGED <<titleVars, scrapeVars, mainVars, storeVars, pairVars, world, changes, file, creds, prev,
                   changed, seen, all_items, new_items, mail>>

\* start_browser, before the try block: it returns a session or raises
StartBrowser ==
    /\ pc = "start"
    /\ \/ /\ driver' = "open"
          /\ pc' = Sources[1]
          /\ UNCHANGED <<exc, prev, changed, seen, all_items, new_items, mail>>
       \/ /\ driver' = "none"
          /\ End(op, "raised")
    /\ UNCHANGED <<titleVars, scrapeVars, mainVars, storeVars, pairVars, world, changes, file, creds, op, file0>>

\* fetch_all, one scraper at a time
Fetch ==
    \E i \in DOMAIN Sources :
        /\ pc = Sources[i]
        /\ all_items' = fetch_step(all_items, Sources[i], world[Sources[i]])
        /\ pc' = IF i < Len(Sources) THEN Sources[i + 1]
                 ELSE IF op = "run_once" THEN "detect" ELSE "write"
        /\ UNCHANGED <<titleVars, scrapeVars, mainVars, storeVars, pairVars, world, changed, changes, file, creds, op, seen, new_items, mail,
                       driver, exc, file0, prev>>

\* run_once: new_items, and the branch on it
Detect ==
    /\ pc = "detect"
    /\ new_items' = detect(all_items, seen)
    /\ pc' = IF new_items' # <<>> THEN "send" ELSE "quit"
    /\ UNCHANGED <<titleVars, scrapeVars, mainVars, storeVars, pairVars, world, changed, changes, file, creds, op, seen, all_items, mail,
                   driver, exc, file0, prev>>

\* send_email(new_items) with what the transport does; it never raises
send_email(items, have_creds, transport) ==
    IF items = <<>> THEN "none"
    ELSE IF ~have_creds THEN "skipped"
    ELSE IF transport = "ok" THEN "delivered"
    ELSE "failed"

Send ==
    /\ pc = "send"
    /\ \E transport \in {"ok", "error"} :
          mail' = send_email(new_items, creds, transport)
    /\ pc' = "save"
    /\ UNCHANGED <<titleVars, scrapeVars, mainVars, storeVars, pairVars, world, changed, changes, file, creds, op, seen, all_items, new_items,
                   driver, exc, file0, prev>>

\* save_new_jobs with the file opened with "w" instead of "a"
save_outcomes_WriteMode(f, job_ids) ==
    IF job_ids = <<>> THEN {[file |-> f, raised |-> FALSE]}
    ELSE {[file |-> save_new_jobs(f, job_ids), raised |-> FALSE],
          [file |-> f, raised |-> TRUE]}
         \cup {[file |-> write_lines(job_ids, k), raised |-> TRUE] :
                 k \in 0..(Len(job_ids) - 1)}

\* what save_new_jobs(job_ids) can do to the file: nothing for an empty list;
\* else all lines appended, or the open fails, or a write fails after k lines
save_outcomes(f, job_ids) ==
    IF job_ids = <<>> THEN {[file |-> f, raised |-> FALSE]}
    ELSE {[file |-> save_new_jobs(f, job_ids), raised |-> FALSE],
          [file |-> f, raised |-> TRUE]}
         \cup {[file |-> append_lines(f, job_ids, k), raised |-> TRUE] :
                 k \in 0..(Len(job_ids) - 1)}

\* run_once without the finally block: an exception of save_new_jobs leaves
\* at once
Save_NoFinally ==
    /\ pc = "save"
    /\ \E o \in save_outcomes(file, urls_of(new_items)) :
          /\ file' = o.file
          /\ IF o.raised
             THEN End(op, "raised")
             ELSE /\ exc' = FALSE
                  /\ pc' = "quit"
                  /\ UNCHANGED <<changed, seen, all_items, new_items, mail, prev>>
    /\ UNCHANGED <<titleVars, scrapeVars, mainVars, storeVars, pairVars, world, changes, creds, op,
                   driver, file0>>

\* save_new_jobs([url for (_, url, _) in new_items])
Save ==
    /\ pc = "save"
    /\ \E o \in save_outcomes(file, urls_of(new_items)) :
          /\ file' = o.file
          /\ exc' = o.raised
    /\ pc' = "quit"
    /\ UNCHANGED <<titleVars, scrapeVars, mainVars, storeVars, pairVars, world, changed, changes, creds, op, seen, all_items, new_items, mail,
                   driver, file0, prev>>

\* the file opened with "a" instead of "w"
write_outcomes_Append(f, init_list) ==
    {[file |-> append_lines(f, init_list, Len(init_list)), raised |-> FALSE],
     [file |-> f, raised |-> TRUE]}
    \cup {[file |-> append_lines(f, init_list, k), raised |-> TRUE] :
            k \in 0..(Len(init_list) - 1)}

\* the old lines are kept and init_list is written after them
write_outcomes_KeepOld(f, init_list) ==
    {[file |-> [exists |-> TRUE,
                lines |-> (IF f.exists THEN f.lines ELSE <<>>) \o init_list],
      raised |-> FALSE],
     [file |-> f, raised |-> TRUE]}

\* what the write of initialize_seen can do to the file: all lines written,
\* or the open fails, or a write fails after k lines
write_outcomes(f, init_list) ==
    {[file |-> write_lines(init_list, Len(init_list)), raised |-> FALSE],
     [file |-> f, raised |-> TRUE]}
    \cup {[file |-> write_lines(init_list, k), raised |-> TRUE] :
            k \in 0..(Len(init_list) - 1)}

\* initialize_seen: the file is opened for writing and init_list written
InitWrite ==
    /\ pc = "write"
    /\ \E o \in write_outcomes(file, init_list_of(all_items)) :
          /\ file' = o.file
          /\ exc' = o.raised
    /\ pc' = "quit"
    /\ UNCHANGED <<titleVars, scrapeVars, mainVars, storeVars, pairVars, world, changed, changes, creds, op, seen, all_items, new_items, mail,
                   driver, file0, prev>>

\* a finally block that ends the operation normally whatever was raised
Quit_Swallow ==
    /\ pc = "quit"
    /\ \E q \in {"quit", "quit_failed"} : driver' = q
    /\ End(op, "returned")
    /\ UNCHANGED <<titleVars, scrapeVars, mainVars, storeVars, pairVars, world, changes, file, creds, op, file0>>

\* the finally block: driver.quit, which closes the session or fails, and
\* whose failure is swallowed; then the operation returns, or the exception
\* goes on
Quit ==
    /\ pc = "quit"
    /\ \E q \in {"quit", "quit_failed"} : driver' = q
    /\ End(op, IF exc THEN "raised" ELSE "returned")
    /\ UNCHANGED <<titleVars, scrapeVars, mainVars, storeVars, pairVars, world, changes, file, creds, op, file0>>

\* at most MaxChanges changes of a site in one behaviour
MaxChanges == 1

\* a site goes down, comes back or shows something else between operations
SiteChange ==
    /\ pc = "idle"
    /\ changes < MaxChanges
    /\ \E i \in DOMAIN Sources :
         \E st \in SiteStates(Sources[i]) :
            /\ st # world[Sources[i]]
            /\ world' = [world EXCEPT ![Sources[i]] = st]
    /\ changed' = TRUE
    /\ changes' = changes + 1
    /\ UNCHANGED <<titleVars, scrapeVars, mainVars, storeVars, pairVars, file, creds, pc, op, seen, all_items, new_items, mail,
                   driver, exc, file0, prev>>

SourceSet == {Sources[i] : i \in DOMAIN Sources}

Worlds ==
    {w \in [SourceSet -> UNION {SiteStates(src) : src \in SourceSet}] :
        \A src \in SourceSet : w[src] \in SiteStates(src)}

\* at the start at most one site is down
InitWorlds ==
    {w \in Worlds : \A s1, s2 \in SourceSet : ~w[s1].up /\ ~w[s2].up => s1 = s2}

NoPrev == [op |-> "none", result |-> "none", mail |-> "none", new |-> <<>>]

InitRun ==
    /\ world \in InitWorlds
    /\ changed = TRUE
    /\ changes = 0
    /\ file \in InitFiles
    /\ creds \in BOOLEAN
    /\ pc = "idle"
    /\ op = "none"
    /\ seen = {}
    /\ all_items = <<>>
    /\ new_items = <<>>
    /\ mail = "none"
    /\ driver = "none"
    /\ exc = FALSE
    /\ file0 = file
    /\ prev = NoPrev

\* the orchestration is not running
RunIdle ==
    /\ world = [src \in SourceSet |-> Down]
    /\ changed = TRUE
    /\ changes = 0
    /\ file = [exists |-> FALSE, lines |-> <<>>]
    /\ creds = FALSE
    /\ pc = "off"
    /\ op = "none"
    /\ seen = {}
    /\ all_items = <<>>
    /\ new_items = <<>>
    /\ mail = "none"
    /\ driver = "none"
    /\ exc = FALSE
    /\ file0 = file
    /\ prev = NoPrev

TitleIdle == title = "" /\ verdict = [rule |-> "none", value |-> FALSE]

ScrapeIdle ==
    /\ page = <<>>
    /\ gscript = [marker |-> FALSE, steps |-> <<>>]
    /\ adapter = "none"
    /\ results = <<>>
    /\ google = google_start(NoScript)

\* main is not running
MainIdle == mode = "none" /\ main_pc = "off"

StoreIdle == appended = <<>> /\ loaded = {}

\* the executions of run_once that may overlap
Runs == {1, 2}

NotRunning ==
    [pc |-> "off", seen |-> {}, new_items |-> <<>>, mail |-> "none",
     alone |-> TRUE, saved |-> TRUE]

NoBefore == [seen |-> {}, fetched |-> {}]

PairIdle == runs = [r \in Runs |-> NotRunning] /\ before = NoBefore

Init == InitRun /\ TitleIdle /\ ScrapeIdle /\ MainIdle /\ StoreIdle /\ PairIdle

Next ==
    \/ RunLoad
    \/ InitCall
    \/ StartBrowser
    \/ Fetch
    \/ Detect
    \/ Send
    \/ Save
    \/ InitWrite
    \/ Quit
    \/ SiteChange

Spec == Init /\ [][Next]_vars

----------------------------------------------------------------------------
(* SpecTitle: the title rules applied to bounded titles *)

\* a title is a concatenation of at most MaxTitleParts of these pieces
MaxTitleParts == 2

TitleParts ==
    {"Software Engineer", "SOFTWARE ENGINEER", "software engineer ii",
     " II", " 2", " III", "Senior ", " - Senior variant", "Staff ",
     " Intern", " Lead", ", Leadership Tools", "Principal ", " Manager",
     ", iOS", ", Kiosk", "Analyst"}

RECURSIVE TitlesOf(_)
TitlesOf(n) ==
    IF n = 0 THEN {""}
    ELSE LET shorter == TitlesOf(n - 1) IN
         shorter \cup {t \o p : t \in shorter, p \in TitleParts}

Titles == TitlesOf(MaxTitleParts)

Rules == {"excluded", "ms", "google", "meta"}

Apply(rule, t) ==
    CASE rule = "excluded" -> is_excluded(t)
      [] rule = "ms"       -> is_ms_relevant_title(t)
      [] rule = "google"   -> is_google_relevant_title(t)
      [] rule = "meta"     -> is_meta_relevant_title(t)

NoVerdict == [rule |-> "none", value |-> FALSE]

InitTitle ==
    /\ title \in Titles
    /\ verdict = NoVerdict
    /\ ScrapeIdle
    /\ RunIdle
    /\ MainIdle
    /\ StoreIdle
    /\ PairIdle

Classify ==
    \E rule \in Rules :
        /\ verdict' = [rule |-> rule, value |-> Apply(rule, title)]
        /\ UNCHANGED <<title, scrapeVars, runVars, mainVars, storeVars, pairVars>>

NextTitle == Classify

SpecTitle == InitTitle /\ [][NextTitle]_vars

----------------------------------------------------------------------------
(* SpecScrape: each scraper applied to bounded documents and scripts *)

\* a document has at most MaxAnchors anchors, a script at most MaxSteps steps
MaxAnchors == 2
MaxSteps == 2

AnchorHrefs ==
    {"/roles/1", "/careers/job/7", "/jobs/3 ", "https://www.metacareers.com/jobs/3"}

AnchorTexts ==
    {"", "  ", " Software Engineer II ", "Senior Software Engineer", "Staff Engineer"}

AnchorSet ==
    {A(h, t) : h \in AnchorHrefs, t \in AnchorTexts}
    \cup {[has_href |-> FALSE, href |-> "", ph |-> TRUE, text |-> "Software Engineer"],
          [has_href |-> TRUE, href |-> "/about", ph |-> TRUE, text |-> "About"]}

RECURSIVE SeqsUpTo(_, _)
SeqsUpTo(S, n) ==
    IF n = 0 THEN {<<>>}
    ELSE LET shorter == SeqsUpTo(S, n - 1) IN
         shorter \cup {Append(q, x) : q \in shorter, x \in S}

Pages == SeqsUpTo(AnchorSet, MaxAnchors)

\* a step that gets through, for each listing heading, address and detail
\* heading, and the steps in which one thing goes wrong
ManyButtons == [GoodStep EXCEPT !.nbuttons = max_jobs + 10]

GoogleSteps ==
    {[ManyButtons EXCEPT !.heading = h, !.url = u,
                         !.detail_text = "Software Engineer, University Graduate"] :
        h \in {"", " Software Engineer III", "Senior Software Engineer"},
        u \in {"https://g/results/1-a", "https://g/results/2-b"}}
    \cup {[ManyButtons EXCEPT !.detail_text = "Staff Software Engineer"],
          [ManyButtons EXCEPT !.detail_text = "  "],
          [ManyButtons EXCEPT !.find = "raise"],
          [ManyButtons EXCEPT !.nbuttons = 1],
          [ManyButtons EXCEPT !.current_url = "raise"],
          [ManyButtons EXCEPT !.click = "raise"],
          [ManyButtons EXCEPT !.nav = "timeout"],
          [ManyButtons EXCEPT !.detail = "timeout"],
          [ManyButtons EXCEPT !.back = "fail"]}

GoogleScripts ==
    {[marker |-> TRUE, steps |-> q] : q \in SeqsUpTo(GoogleSteps, MaxSteps)}
    \cup {[marker |-> FALSE, steps |-> <<st>>] : st \in GoogleSteps}

InitScrape ==
    /\ \/ page \in Pages /\ gscript = NoScript
       \/ page = <<>> /\ gscript \in GoogleScripts
    /\ adapter = "none"
    /\ results = <<>>
    /\ google = google_start(NoScript)
    /\ TitleIdle
    /\ RunIdle
    /\ MainIdle
    /\ StoreIdle
    /\ PairIdle

\* one of the four scrapers that parse the document
ScrapeDoc ==
    /\ adapter = "none"
    /\ gscript = NoScript
    /\ \E src \in SourceSet \ {"Google"} :
          /\ adapter' = src
          /\ results' = scrape(src, Showing(page))
    /\ UNCHANGED <<page, gscript, google, titleVars, runVars, mainVars, storeVars, pairVars>>

\* scrape_google up to the loop: the page is opened and the first wait ends
GoogleOpen ==
    /\ adapter = "none"
    /\ gscript # NoScript
    /\ adapter' = "Google"
    /\ google' = google_start(gscript)
    /\ results' = <<>>
    /\ UNCHANGED <<page, gscript, titleVars, runVars, mainVars, storeVars, pairVars>>

\* one iteration of scrape_google's loop
GoogleIter ==
    /\ adapter = "Google"
    /\ ~google.done
    /\ google' = google_iter(google, StepAt(gscript.steps, google.idx))
    /\ results' = google'.results
    /\ UNCHANGED <<page, gscript, adapter, titleVars, runVars, mainVars, storeVars, pairVars>>

NextScrape == ScrapeDoc \/ GoogleOpen \/ GoogleIter

SpecScrape == InitScrape /\ [][NextScrape]_vars

----------------------------------------------------------------------------
(* SpecMain: main, with a call of run_once or initialize_seen as one step *)

\* fetch_all(driver): the five scrapers in order
RECURSIVE fetch_upto(_, _)
fetch_upto(w, i) ==
    IF i = 0 THEN <<>>
    ELSE fetch_step(fetch_upto(w, i - 1), Sources[i], w[Sources[i]])

fetch_all(w) == fetch_upto(w, Len(Sources))

\* what a call of run_once can do: load_seen_jobs or start_browser raises;
\* else the email is sent, delivered or not, and save_new_jobs returns or
\* raises; driver.quit changes none of that
run_once(f, w, have_creds) ==
    {[file |-> f, mail |-> "none", raised |-> TRUE]}
    \cup LET new == detect(fetch_all(w), load_seen_jobs(f)) IN
         {[file |-> o.file, mail |-> send_email(new, have_creds, transport),
           raised |-> o.raised] :
             transport \in {"ok", "error"}, o \in save_outcomes(f, urls_of(new))}

\* what a call of initialize_seen can do: start_browser raises, or the file
\* is written, wholly or not
initialize_seen(f, w) ==
    {[file |-> f, mail |-> "none", raised |-> TRUE]}
    \cup {[file |-> o.file, mail |-> "none", raised |-> o.raised] :
            o \in write_outcomes(f, init_list_of(fetch_all(w)))}

\* --initialize, --run-once, or no flag
Modes == {"initialize", "run_once", "loop"}

InitMain ==
    /\ mode \in Modes
    /\ main_pc = "args"
    /\ world \in InitWorlds
    /\ changed = TRUE
    /\ changes = 0
    /\ file \in InitFiles
    /\ creds \in BOOLEAN
    /\ pc = "off"
    /\ op = "none"
    /\ seen = {}
    /\ all_items = <<>>
    /\ new_items = <<>>
    /\ mail = "none"
    /\ driver = "none"
    /\ exc = FALSE
    /\ file0 = file
    /\ prev = NoPrev
    /\ TitleIdle
    /\ ScrapeIdle
    /\ StoreIdle
    /\ PairIdle

\* if args.initialize: initialize_seen(); return
MainInitialize ==
    /\ main_pc = "args"
    /\ mode = "initialize"
    /\ \E o \in initialize_seen(file, world) :
          /\ file' = o.file
          /\ mail' = o.mail
          /\ main_pc' = IF o.raised THEN "raised" ELSE "returned"
    /\ UNCHANGED <<titleVars, scrapeVars, storeVars, pairVars, mode, world, changed, changes,
                   creds, pc, op, seen, all_items, new_items, driver, exc, file0, prev>>

\* if args.run_once: run_once(); return
MainRunOnce ==
    /\ main_pc = "args"
    /\ mode = "run_once"
    /\ \E o \in run_once(file, world, creds) :
          /\ file' = o.file
          /\ mail' = o.mail
          /\ main_pc' = IF o.raised THEN "raised" ELSE "returned"
    /\ UNCHANGED <<titleVars, scrapeVars, storeVars, pairVars, mode, world, changed, changes,
                   creds, pc, op, seen, all_items, new_items, driver, exc, file0, prev>>

\* while True: run_once(), with no handler around it, and the print
MainLoopRun ==
    /\ main_pc \in {"args", "loop"}
    /\ mode = "loop"
    /\ \E o \in run_once(file, world, creds) :
          /\ file' = o.file
          /\ mail' = o.mail
          /\ main_pc' = IF o.raised THEN "raised" ELSE "sleep"
    /\ UNCHANGED <<titleVars, scrapeVars, storeVars, pairVars, mode, world, changed, changes,
                   creds, pc, op, seen, all_items, new_items, driver, exc, file0, prev>>

\* time.sleep(CHECK_INTERVAL), during which a site may change
MainSleep ==
    /\ main_pc = "sleep"
    /\ main_pc' = "loop"
    /\ \/ UNCHANGED <<world, changes>>
       \/ /\ changes < MaxChanges
          /\ changes' = changes + 1
          /\ \E i \in DOMAIN Sources :
               \E st \in SiteStates(Sources[i]) :
                  /\ st # world[Sources[i]]
                  /\ world' = [world EXCEPT ![Sources[i]] = st]
    /\ UNCHANGED <<titleVars, scrapeVars, storeVars, pairVars, mode, changed, file, creds, pc, op,
                   seen, all_items, new_items, mail, driver, exc, file0, prev>>

NextMain == MainInitialize \/ MainRunOnce \/ MainLoopRun \/ MainSleep

SpecMain == InitMain /\ [][NextMain]_vars

----------------------------------------------------------------------------
(* SpecStore: save_new_jobs applied again and again to a seen file *)

\* a list handed to save_new_jobs has at most MaxAppend urls, and lists are
\* appended while the file has fewer than MaxStoreLines lines
MaxAppend == 2
MaxStoreLines == 4

StoreUrls ==
    {"https://higher.gs.com/roles/0", "https://higher.gs.com/roles/1",
     "https://www.metacareers.com/jobs/3"}

InitStore ==
    /\ file \in InitFiles
    /\ appended = <<>>
    /\ loaded = load_seen_jobs(file)
    /\ world = [src \in SourceSet |-> Down]
    /\ changed = TRUE
    /\ changes = 0
    /\ creds = FALSE
    /\ pc = "off"
    /\ op = "none"
    /\ seen = {}
    /\ all_items = <<>>
    /\ new_items = <<>>
    /\ mail = "none"
    /\ driver = "none"
    /\ exc = FALSE
    /\ file0 = file
    /\ prev = NoPrev
    /\ TitleIdle
    /\ ScrapeIdle
    /\ MainIdle
    /\ PairIdle

\* load_seen_jobs(), then save_new_jobs(U) for a list U of urls
StoreAppend ==
    /\ Len(file.lines) < MaxStoreLines
    /\ \E U \in SeqsUpTo(StoreUrls, MaxAppend) :
          /\ loaded' = load_seen_jobs(file)
          /\ appended' = U
          /\ file' = save_new_jobs(file, U)
    /\ UNCHANGED <<titleVars, scrapeVars, mainVars, pairVars, world, changed, changes, creds, pc,
                   op, seen, all_items, new_items, mail, driver, exc, file0, prev>>

NextStore == StoreAppend

SpecStore == InitStore /\ [][NextStore]_vars

----------------------------------------------------------------------------
(* SpecPair: two executions of run_once, in two processes, on one seen file. *)
(* Each goes through load_seen_jobs, then fetch_all and send_email, then     *)
(* save_new_jobs; alone records that the other execution had not started or  *)
(* was over when this one loaded, saved that its save_new_jobs returned.     *)

OtherRun(r) == CHOOSE q \in Runs : q # r

InitPair ==
    /\ runs = [r \in Runs |-> [NotRunning EXCEPT !.pc = "idle"]]
    /\ before = NoBefore
    /\ world \in InitWorlds
    /\ changed = TRUE
    /\ changes = 0
    /\ file \in InitFiles
    /\ creds \in BOOLEAN
    /\ pc = "off"
    /\ op = "none"
    /\ seen = {}
    /\ all_items = <<>>
    /\ new_items = <<>>
    /\ mail = "none"
    /\ driver = "none"
    /\ exc = FALSE
    /\ file0 = file
    /\ prev = NoPrev
    /\ TitleIdle
    /\ ScrapeIdle
    /\ MainIdle
    /\ StoreIdle

\* seen = load_seen_jobs() and start_browser(), either of which may raise
PairLoad ==
    /\ \E r \in Runs :
          /\ runs[r].pc = "idle"
          /\ \/ runs' = [runs EXCEPT
                            ![r].pc = "loaded",
                            ![r].seen = load_seen_jobs(file),
                            ![r].alone = runs[OtherRun(r)].pc \in {"idle", "over"}]
             \/ runs' = [runs EXCEPT ![r].pc = "over"]
    /\ UNCHANGED <<titleVars, scrapeVars, mainVars, storeVars, runVars, before>>

\* fetch_all, new_items, and send_email when there are any
PairSend ==
    /\ \E r \in Runs :
          /\ runs[r].pc = "loaded"
          /\ \E new \in {detect(fetch_all(world), runs[r].seen)},
                transport \in {"ok", "error"} :
                runs' = [runs EXCEPT
                            ![r].pc = IF new = <<>> THEN "over" ELSE "sent",
                            ![r].new_items = new,
                            ![r].mail = send_email(new, creds, transport)]
    /\ UNCHANGED <<titleVars, scrapeVars, mainVars, storeVars, runVars, before>>

\* save_new_jobs([url for (_, url, _) in new_items]), and the finally block
PairSave ==
    /\ \E r \in Runs :
          /\ runs[r].pc = "sent"
          /\ \E o \in save_outcomes(file, urls_of(runs[r].new_items)) :
                /\ file' = o.file
                /\ runs' = [runs EXCEPT ![r].pc = "over", ![r].saved = ~o.raised]
    /\ UNCHANGED <<titleVars, scrapeVars, mainVars, storeVars, before, world, changed,
                   changes, creds, pc, op, seen, all_items, new_items, mail, driver,
                   exc, file0, prev>>

\* a site goes down, comes back or shows something else, at any time
PairSiteChange ==
    /\ changes < MaxChanges
    /\ \E i \in DOMAIN Sources :
         \E st \in SiteStates(Sources[i]) :
            /\ st # world[Sources[i]]
            /\ world' = [world EXCEPT ![Sources[i]] = st]
    /\ changes' = changes + 1
    /\ UNCHANGED <<titleVars, scrapeVars, mainVars, storeVars, pairVars, changed, file,
                   creds, pc, op, seen, all_items, new_items, mail, driver, exc, file0,
                   prev>>

NextPair == PairLoad \/ PairSend \/ PairSave \/ PairSiteChange

SpecPair == InitPair /\ [][NextPair]_vars

----------------------------------------------------------------------------
(* SpecArm: initialize_seen, then the sites change, then run_once; each call *)
(* is one step.                                                              *)

InitArm ==
    /\ runs = [r \in Runs |-> NotRunning]
    /\ before = NoBefore
    /\ world \in InitWorlds
    /\ changed = TRUE
    /\ changes = 0
    /\ file \in InitFiles
    /\ creds \in BOOLEAN
    /\ pc = "off"
    /\ op = "none"
    /\ seen = {}
    /\ all_items = <<>>
    /\ new_items = <<>>
    /\ mail = "none"
    /\ driver = "none"
    /\ exc = FALSE
    /\ file0 = file
    /\ prev = NoPrev
    /\ TitleIdle
    /\ ScrapeIdle
    /\ MainIdle
    /\ StoreIdle

\* initialize_seen()
ArmInitialize ==
    /\ op = "none"
    /\ op' = "initialize_seen"
    /\ before' = [seen |-> load_seen_jobs(file),
                  fetched |-> LET items == fetch_all(world)
                              IN  {items[i][2] : i \in DOMAIN items}]
    /\ \E o \in initialize_seen(file, world) :
          /\ file' = o.file
          /\ prev' = [NoPrev EXCEPT
                         !.op = "initialize_seen",
                         !.result = IF o.raised THEN "raised" ELSE "returned"]
    /\ UNCHANGED <<titleVars, scrapeVars, mainVars, storeVars, runs, world, changed,
                   changes, creds, pc, seen, all_items, new_items, mail, driver, exc,
                   file0>>

\* a site goes down, comes back or shows something else after initialize_seen
ArmSiteChange ==
    /\ op = "initialize_seen"
    /\ changes < MaxChanges
    /\ \E i \in DOMAIN Sources :
         \E st \in SiteStates(Sources[i]) :
            /\ st # world[Sources[i]]
            /\ world' = [world EXCEPT ![Sources[i]] = st]
    /\ changes' = changes + 1
    /\ UNCHANGED <<titleVars, scrapeVars, mainVars, storeVars, pairVars, changed, file,
                   creds, pc, op, seen, all_items, new_items, mail, driver, exc, file0,
                   prev>>

\* run_once(): load_seen_jobs or start_browser raises, or the run goes
\* through fetch_all, new_items, send_email and save_new_jobs
ArmRunOnce ==
    /\ op = "initialize_seen"
    /\ op' = "run_once"
    /\ \/ /\ exc' = TRUE
          /\ UNCHANGED <<file, seen, all_items, new_items, mail>>
       \/ /\ seen' = load_seen_jobs(file)
          /\ all_items' = fetch_all(world)
          /\ new_items' = detect(all_items', seen')
          /\ \E transport \in {"ok", "error"},
                o \in save_outcomes(file, urls_of(new_items')) :
                /\ mail' = send_email(new_items', creds, transport)
                /\ file' = o.file
                /\ exc' = o.raised
    /\ UNCHANGED <<titleVars, scrapeVars, mainVars, storeVars, pairVars, world, changed,
                   changes, creds, pc, driver, file0, prev>>

NextArm == ArmInitialize \/ ArmSiteChange \/ ArmRunOnce

SpecArm == InitArm /\ [][NextArm]_vars

----------------------------------------------------------------------------
(* Properties *)

UrlsIn(items) == {items[i][2] : i \in DOMAIN items}

\* run_once is past the branch on new_items
AfterDetect == op = "run_once" /\ pc \in {"send", "save", "quit"}

\* the previous operation returned normally and no site changed since
After(o) == prev.op = o /\ prev.result = "returned" /\ ~changed

\* C1: when run_once ends and the email for its new postings was skipped or
\* failed, none of their urls is in the seen file
C1_UndeliveredNotSaved ==
    (op = "run_once" /\ pc = "quit" /\ new_items # <<>>
        /\ mail \in {"skipped", "failed"})
    => UrlsIn(new_items) \cap load_seen_jobs(file) = {}

\* C2: all through run_once the seen file holds every entry it held when the
\* run started
C2_SeenOnlyGrows ==
    op = "run_once" => load_seen_jobs(file0) \subseteq load_seen_jobs(file)

C2_Witness ==
    /\ op = "run_once" /\ pc = "idle" /\ prev.result = "returned"
    /\ load_seen_jobs(file0) # {}
    /\ load_seen_jobs(file) # load_seen_jobs(file0)

\* C3: no url occurs twice in the list fetch_all returns
C3_UrlsUnique ==
    pc \in {"detect", "write"}
    => \A i, j \in DOMAIN all_items : all_items[i][2] = all_items[j][2] => i = j

\* C4: after a run_once that delivered its email and saved, a run_once with
\* the same scraper output finds nothing new, sends nothing and leaves the
\* seen file as it was
C4_RerunFindsNothing ==
    (AfterDetect /\ After("run_once") /\ prev.mail = "delivered")
    => new_items = <<>> /\ mail = "none" /\ file = file0

C4_Witness ==
    /\ AfterDetect /\ After("run_once") /\ prev.mail = "delivered"
    /\ pc = "quit" /\ all_items # <<>>

\* C5: when initialize_seen has written the file, load_seen_jobs returns
\* exactly the fetched urls
C5_InitializeExact ==
    (op = "initialize_seen" /\ pc = "quit" /\ ~exc)
    => load_seen_jobs(file) = UrlsIn(all_items)

C5_Witness ==
    /\ op = "initialize_seen" /\ pc = "quit" /\ ~exc
    /\ all_items # <<>>
    /\ ~(load_seen_jobs(file0) \subseteq UrlsIn(all_items))
    /\ ~(UrlsIn(all_items) \subseteq load_seen_jobs(file0))

\* C6: initialize_seen sends no email, and neither does a run_once that
\* follows it with the same scraper output
C6_ArmingIsSilent ==
    /\ op = "initialize_seen" => mail = "none"
    /\ (AfterDetect /\ After("initialize_seen"))
       => new_items = <<>> /\ mail = "none"

C6_Witness ==
    /\ AfterDetect /\ After("initialize_seen")
    /\ pc = "quit" /\ all_items # <<>>

\* what the scrapers that do not raise return, in the order of fetch_all
RECURSIVE Produced(_)
Produced(i) ==
    IF i = 0 THEN <<>>
    ELSE Produced(i - 1) \o (IF world[Sources[i]].up
                             THEN scrape(Sources[i], world[Sources[i]])
                             ELSE <<>>)

\* C7: when fetch_all has returned (before new_items is computed, before the
\* email, before the write of initialize_seen), its list is what the scrapers
\* that did not raise produced, in order, whichever scrapers raised
C7_OthersStillFetched ==
    pc \in {"detect", "write", "send"} => all_items = Produced(Len(Sources))

C7_Witness ==
    /\ pc = "send"
    /\ ~world["Microsoft"].up
    /\ \E i, j \in DOMAIN new_items :
          new_items[i][1] = "Goldman Sachs" /\ new_items[j][1] = "Meta"

\* C8: when run_once ends and every fetched url was in the loaded seen set,
\* no email was sent and the seen file is as it was
C8_NothingNewNoEffect ==
    (op = "run_once" /\ pc = "quit" /\ UrlsIn(all_items) \subseteq seen)
    => mail = "none" /\ file = file0

C8_Witness ==
    /\ op = "run_once" /\ pc = "quit"
    /\ all_items # <<>>
    /\ UrlsIn(all_items) \subseteq seen

\* the source's own title rule
RelevantFor(source, t) ==
    CASE source = "Microsoft" -> is_ms_relevant_title(t)
      [] source = "Google"    -> is_google_relevant_title(t)
      [] source = "Meta"      -> is_meta_relevant_title(t)
      [] OTHER                -> TRUE

\* C9: every posting a scraper returns has a title without a global exclude
\* keyword and accepted by the title rule of its source
C9_ReturnedTitlesRelevant ==
    \A i \in DOMAIN results :
        /\ results[i][1] = adapter
        /\ \A k \in DOMAIN EXCLUDED_KEYWORDS :
              ~Contains(Lower(results[i][3]), EXCLUDED_KEYWORDS[k])
        /\ RelevantFor(results[i][1], results[i][3])

C9_Witness ==
    /\ adapter = "Google"
    /\ google.done
    /\ \E i, j \in DOMAIN results :
          /\ results[i][3] = GoogleFallbackTitle
          /\ results[j][3] = "Software Engineer, University Graduate"

\* C10: a title that holds an exclude token of the Microsoft (Google) rule
\* is not relevant for Microsoft (Google), whatever prefix it starts with
C10_DenyWins ==
    /\ (verdict.rule = "ms" /\ AnyIn(ms_exclude_tokens, Lower(title)))
       => verdict.value = FALSE
    /\ (verdict.rule = "google" /\ AnyIn(google_exclude_tokens, Lower(title)))
       => verdict.value = FALSE

C10_Witness ==
    /\ verdict.rule = "ms"
    /\ StartsWith(Lower(title), "software engineer ii")
    /\ Contains(Lower(title), "senior")
    /\ verdict.value = FALSE

\* only white space, or nothing at all
Blank(s) == Strip(s) = ""

\* the title scrape_google gives the posting of a step it records
GoogleTitle(st) ==
    IF ~Blank(st.heading) THEN Strip(st.heading)
    ELSE IF st.detail = "found" THEN Strip(st.detail_text)
    ELSE GoogleFallbackTitle

\* C11 (as claimed): no posting a scraper returns has a blank url or a blank
\* title, and an iteration of scrape_google whose listing heading is blank
\* adds no posting
C11_BlankHeadingEmitsNothing ==
    [][/\ \A i \in DOMAIN results' :
             ~Blank(results'[i][2]) /\ ~Blank(results'[i][3])
       /\ (adapter = "Google" /\ adapter' = "Google"
             /\ Blank(StepAt(gscript.steps, google.idx).heading))
          => results' = results]_vars

\* C11 (amended): every posting a scraper returns has a url and a stripped
\* title that are not blank; a posting of the four document scrapers comes
\* from an anchor whose href and text are not blank; a posting of
\* scrape_google comes from a step whose address it carries, titled by the
\* listing heading or, when that is blank, by the detail heading or the
\* fallback title
C11_PostingsNotBlank ==
    \A i \in DOMAIN results :
        /\ ~Blank(results[i][2])
        /\ ~Blank(results[i][3])
        /\ results[i][3] = Strip(results[i][3])
        /\ adapter # "Google"
           => \E k \in DOMAIN page :
                 /\ ~Blank(GetHref(page[k]))
                 /\ ~Blank(page[k].text)
                 /\ results[i][3] = Strip(page[k].text)
        /\ adapter = "Google"
           => \E k \in DOMAIN gscript.steps :
                 /\ results[i][2] = gscript.steps[k].url
                 /\ results[i][3] = GoogleTitle(gscript.steps[k])

C11_Witness ==
    /\ adapter = "Google"
    /\ \E k \in DOMAIN gscript.steps :
          /\ Blank(gscript.steps[k].heading)
          /\ gscript.steps[k].detail = "timeout"
          /\ \E i \in DOMAIN results :
                results[i] = <<"Google", gscript.steps[k].url, GoogleFallbackTitle>>

\* C12: a failure on the seen file is never swallowed. A run_once that goes
\* on after load_seen_jobs holds what the file held and one that does not
\* ends raised, before any browser is started; a save or an initialize write
\* that leaves the file short of the complete write raises; and an exception
\* that reaches the finally block leaves the operation
C12_StorageFailurePropagates ==
    [][/\ (pc = "idle" /\ op' = "run_once" /\ pc' = "start")
          => seen' = load_seen_jobs(file)
       /\ (pc = "idle" /\ op' = "run_once" /\ pc' = "idle" /\ changes' = changes)
          => prev'.op = "run_once" /\ prev'.result = "raised" /\ driver' = "none"
       /\ (pc = "save" /\ file' # save_new_jobs(file, urls_of(new_items)))
          => exc'
       /\ (pc = "write"
             /\ file' # write_lines(init_list_of(all_items),
                                    Len(init_list_of(all_items))))
          => exc'
       /\ (pc = "quit" /\ exc)
          => pc' = "idle" /\ prev'.op = op /\ prev'.result = "raised"]_vars

C12_Witness ==
    /\ pc = "idle"
    /\ prev.op = "initialize_seen"
    /\ prev.result = "raised"
    /\ driver \in {"quit", "quit_failed"}
    /\ file # file0

\* C14: no operation ends with the session open: once start_browser has
\* returned one, the operation ends only through driver.quit, on every
\* path; and a driver.quit that fails raises nothing
C14_SessionAlwaysQuit ==
    [][/\ pc' = "idle" => driver' # "open"
       /\ (driver = "open" /\ pc' = "idle")
          => pc = "quit" /\ driver' \in {"quit", "quit_failed"}
       /\ (pc = "quit" /\ ~exc /\ driver' = "quit_failed")
          => prev'.result = "returned"]_vars

C14_Witness ==
    /\ pc = "idle"
    /\ driver = "quit_failed"
    /\ prev.op = "run_once"
    /\ prev.result = "returned"
    /\ prev.mail = "failed"

\* C16: all through initialize_seen, and when its write raised, the seen
\* file reads as the complete set it held before or as exactly the fetched
\* urls
C16_OverwriteAtomic ==
    (op = "initialize_seen" /\ pc # "idle")
    => \/ load_seen_jobs(file) = load_seen_jobs(file0)
       \/ pc = "quit" /\ load_seen_jobs(file) = UrlsIn(all_items)

\* the previous run_once delivered its email and raised in save_new_jobs, no
\* site changed since, and this run_once is past the branch on new_items
RerunAfterFailedSave ==
    /\ AfterDetect
    /\ ~changed
    /\ prev.op = "run_once" /\ prev.result = "raised" /\ prev.mail = "delivered"

PostingsIn(items) == {items[i] : i \in DOMAIN items}

\* C20 (as claimed): the run after a delivered email whose save raised finds
\* the same set of postings new
C20_SameSetAgain ==
    RerunAfterFailedSave => PostingsIn(new_items) = PostingsIn(prev.new)

\* C20 (amended): the run after a delivered email whose save raised finds
\* new, in order, exactly those postings of that email whose url the failed
\* save had not written
C20_UnsavedAgain ==
    RerunAfterFailedSave
    => new_items = SelectSeq(prev.new, LAMBDA it : it[2] \notin load_seen_jobs(file0))

C20_Witness ==
    /\ RerunAfterFailedSave
    /\ pc = "send"
    /\ Len(new_items) < Len(prev.new)

\* C13: without flags main never ends because a call of run_once raised
C13_LoopSurvivesErrors ==
    mode = "loop" => main_pc # "raised"

\* C15: a scraper whose first wait timed out returns what it would have
\* returned had the wait ended in time on the same page: the time-out alone
\* changes nothing. (The four document scrapers parse page_source whatever
\* the wait did; scrape_google is the one whose wait can end it.)
C15_TimeoutStillParses ==
    /\ adapter \in SourceSet \ {"Google"}
       => results = scrape(adapter, Showing(page))
    /\ (adapter = "Google" /\ google.done /\ ~gscript.marker)
       => results = scrape_google([gscript EXCEPT !.marker = TRUE])

\* C17: load_seen_jobs returns the empty set for an absent file, and after
\* save_new_jobs(U) it returns what it returned before together with the
\* urls of U, whether or not U repeats urls of the file or of itself
C17_StoreIsASet ==
    /\ ~file.exists => load_seen_jobs(file) = {}
    /\ load_seen_jobs(file) = loaded \cup {appended[i] : i \in DOMAIN appended}

C17_Witness ==
    /\ Len(appended) = 2
    /\ appended[1] = appended[2]
    /\ appended[1] \in loaded
    /\ \E i, j \in DOMAIN file.lines : i # j /\ file.lines[i] = file.lines[j]

\* what the browser does in the iteration scrape_google is about to make
ThisStep == StepAt(gscript.steps, google.idx)

\* that iteration gets as far as activating its button
ReachesClick ==
    /\ adapter = "Google" /\ ~google.done
    /\ google.idx < max_jobs
    /\ ThisStep.find # "raise" /\ google.idx < ThisStep.nbuttons
    /\ Blank(ThisStep.heading) \/ google_keep(Strip(ThisStep.heading))
    /\ ThisStep.current_url # "raise"

\* the activation fails
ClickFails == ReachesClick /\ ThisStep.click = "raise"

\* the button is activated and the address does not change within the wait
AddressStays == ReachesClick /\ ThisStep.click # "raise" /\ ThisStep.nav = "timeout"

\* a new address is recorded and the return to the listing fails
ReturnFails ==
    /\ ReachesClick /\ ThisStep.click # "raise" /\ ThisStep.nav # "timeout"
    /\ ThisStep.url \notin google.seen_urls
    /\ ThisStep.back = "fail"

IsPrefix(p, q) == Len(p) <= Len(q) /\ SubSeq(q, 1, Len(p)) = p

\* C18 (as claimed): an iteration of scrape_google in which the activation
\* fails, the address never changes or the return fails is the last one,
\* and the postings recorded before it are kept
C18_FailureEndsLoop ==
    [][(ClickFails \/ AddressStays \/ ReturnFails)
       => google'.done /\ IsPrefix(results, results')]_vars

\* C18 (amended): no iteration of scrape_google loses a posting recorded
\* before it; a failed activation or an address that never changes only
\* skips that iteration, and the loop goes on with the next button; a failed
\* return after a newly recorded address ends the loop
C18_FailureSkipsOrEnds ==
    [][/\ (adapter = "Google" /\ adapter' = "Google")
          => IsPrefix(results, results')
       /\ ClickFails
          => /\ ~google'.done
             /\ google'.idx = google.idx + 1
             /\ google'.clicks = google.clicks
             /\ results' = results
       /\ AddressStays
          => /\ ~google'.done
             /\ google'.idx = google.idx + 1
             /\ google'.clicks = google.clicks + 1
             /\ results' = results
       /\ ReturnFails
          => google'.done /\ google'.clicks = google.clicks + 1]_vars

C18_Witness ==
    /\ adapter = "Google"
    /\ Len(gscript.steps) = 2
    /\ gscript.steps[1].nav = "timeout"
    /\ gscript.steps[2].back = "fail"
    /\ google.done
    /\ google.clicks = 2
    /\ results # <<>>

\* C19: scrape_google never makes more than max_jobs activations, and it
\* comes to its end: every iteration either ends the loop or moves idx up by
\* one, and idx never passes max_jobs
C19_BoundedAndTerminates ==
    [][adapter' = "Google"
       => /\ google'.clicks <= max_jobs
          /\ google'.idx <= max_jobs
          /\ adapter = "Google"
             => google'.done \/ google'.idx = google.idx + 1]_vars

C19_Witness ==
    /\ adapter = "Google"
    /\ google.done
    /\ google.clicks = max_jobs
    /\ ThisStep.nbuttons > max_jobs

\* the urls of the email an execution of run_once got delivered
Emailed(r) ==
    IF runs[r].mail = "delivered" THEN UrlsIn(runs[r].new_items) ELSE {}

\* C21: when a url is in the delivered emails of both executions of
\* run_once, they overlapped (one loaded while the other was between its
\* load and the end of its save) or a save_new_jobs raised; so serialized
\* executions whose appends succeed never email a url twice
C21_SerializedNoDuplicate ==
    Emailed(1) \cap Emailed(2) # {}
    => \/ \E r \in Runs : ~runs[r].alone
       \/ \E r \in Runs : ~runs[r].saved

\* two overlapping executions, no save raised, and both emailed the same url
C21_Witness ==
    /\ Emailed(1) \cap Emailed(2) # {}
    /\ \E r \in Runs : ~runs[r].alone
    /\ \A r \in Runs : runs[r].pc = "over" /\ runs[r].saved

\* C22 (as claimed): the run_once after an initialize_seen reports no url as
\* new that was in the seen file before that initialize_seen
C22_ArmingKeepsSeen ==
    (op = "run_once" /\ prev.op = "initialize_seen" /\ prev.result = "returned")
    => UrlsIn(new_items) \cap before.seen = {}

\* C22 (amended): initialize_seen discards what the seen file held: the
\* run_once after an initialize_seen that returned reports a fetched posting
\* as new exactly when initialize_seen had not fetched its url, whether or
\* not the url was in the seen file before
C22_ArmingForgets ==
    (op = "run_once" /\ prev.op = "initialize_seen" /\ prev.result = "returned")
    => \A i \in DOMAIN all_items :
          (all_items[i] \in PostingsIn(new_items))
          <=> all_items[i][2] \notin before.fetched

C22_Witness ==
    /\ op = "run_once" /\ prev.op = "initialize_seen" /\ prev.result = "returned"
    /\ \E u \in before.seen :
          u \notin before.fetched /\ u \in UrlsIn(new_items)

====
